---- MODULE Spec2Model ----
(***************************************************************************)
(* State-machine model of lobbylist.py: one supervisor task per configured *)
(* server (update_lobby_data driving a LobbyList), the module-level        *)
(* DATABASE they publish into with update_database, and the HTTP handlers  *)
(* of ApiRequestHandler reading it.  asyncio runs the tasks on one thread: *)
(* a task is only interrupted where it awaits the network (connect, send,  *)
(* read, the response write), so each action below is the code that runs   *)
(* from one such await to the next.                                        *)
(*                                                                         *)
(* Strings that the code compares, concatenates into a sort key or slices  *)
(* are sequences of one-character strings; Join turns one into a string.   *)
(* A dict is a function whose domain is its set of keys.                   *)
(***************************************************************************)
EXTENDS Integers, Sequences, FiniteSets, TLC

VARIABLES
    DATABASE,        \* the module-level list of enriched entries
    lobby_entries,   \* per lister: WebTilesConnection.lobby_entries
    lobby_complete,  \* per lister: WebTilesConnection.lobby_complete
    task,            \* per supervisor task: the await it is suspended at, or "done"
    published,       \* per server: the batch of the last update_database call
    watcher,         \* the GameWatcher of the /gameinfo request in progress
    response,        \* the HTTP response written by the step just taken
    replayed         \* the step just taken called update_database with the
                     \* batch of the server's previous call (with an empty
                     \* batch, if it was the server's first call)

vars == <<DATABASE, lobby_entries, lobby_complete, task, published,
          watcher, response, replayed>>

--------------------------------------------------------------------------
(* Bounds *)

MaxEntries == 2      \* longest lobby_entries list a feed builds up

--------------------------------------------------------------------------
(* Strings *)

\* Code points of the characters that occur in compared strings.
Ord ==
    ("a" :> 97) @@ ("b" :> 98) @@ ("c" :> 99) @@ ("o" :> 111) @@ ("p" :> 112)

\* Python's str < str: lexicographic by code point, a proper prefix first.
RECURSIVE StrLess(_, _)
StrLess(s, t) ==
    IF t = <<>> THEN FALSE
    ELSE IF s = <<>> THEN TRUE
    ELSE IF Ord[Head(s)] # Ord[Head(t)] THEN Ord[Head(s)] < Ord[Head(t)]
    ELSE StrLess(Tail(s), Tail(t))

StrLessEq(s, t) == s = t \/ StrLess(s, t)

RECURSIVE Join(_)
Join(s) == IF s = <<>> THEN "" ELSE Head(s) \o Join(Tail(s))

\* entry[k] = v on a dict.
set(entry, k, v) == (k :> v) @@ entry

--------------------------------------------------------------------------
(* Configuration *)

cao == <<"c", "a", "o">>
cpo == <<"c", "p", "o">>

\* Two of the configured servers, one of each protocol version.
SERVERS ==
    << [name |-> cao, ws_url |-> "ws://crawl.akrasiac.org:8080/socket",
        ws_proto |-> 1, base_url |-> "http://crawl.akrasiac.org:8080/"],
       [name |-> cpo, ws_url |-> "wss://crawl.project357.org/socket",
        ws_proto |-> 2, base_url |-> "https://crawl.project357.org/"] >>

ServerNames == {SERVERS[i].name : i \in DOMAIN SERVERS}

\* The LobbyList that main() builds for each server.
listers ==
    [name \in ServerNames |->
        CHOOSE s \in {SERVERS[i] : i \in DOMAIN SERVERS} : s.name = name]

lister(name) == listers[name]

--------------------------------------------------------------------------
(* The feed *)

\* The lobby_entry messages a feed sends: the message dict is the entry.
\* A user can have a game of each game type running on one server.
RawEntries ==
    { [msg |-> "lobby_entry", username |-> <<"a">>, game_id |-> "dcss",
       idle_time |-> 0],
      [msg |-> "lobby_entry", username |-> <<"a">>, game_id |-> "sprint",
       idle_time |-> 5],
      [msg |-> "lobby_entry", username |-> <<"a", "b">>, game_id |-> "dcss",
       idle_time |-> 5],
      [msg |-> "lobby_entry", username |-> <<"a">>, game_id |-> "dcss"] }

\* What read() delivers: a message, and for a lobby_remove message the
\* position of the entry the library matches it to.  Only protocol version
\* 1 announces the end of the initial lobby with a lobby_complete message.
Deliveries(ws_proto, n) ==
    [message : RawEntries \cup {[msg |-> "ping"]}, slot : {0}]
    \cup [message : {[msg |-> "lobby_remove"]}, slot : 1..n]
    \cup IF ws_proto = 1
         THEN [message : {[msg |-> "lobby_complete"]}, slot : {0}]
         ELSE {}

RemoveAt(s, k) == SubSeq(s, 1, k - 1) \o SubSeq(s, k + 1, Len(s))

\* The entries other than the one of the message's user and game.
other_games(entries, message) ==
    SelectSeq(entries, LAMBDA e : \/ e.username # message.username
                                  \/ e.game_id # message.game_id)

\* WebTilesConnection.handle_message on the lister's state
\* l = [lobby_entries, lobby_complete]: a lobby_entry message replaces the
\* entry of the same user and game or is a new entry.
handle_message(l, d) ==
    CASE d.message.msg = "lobby_entry" ->
            [l EXCEPT !.lobby_entries =
                         Append(other_games(@, d.message), d.message)]
      [] d.message.msg = "lobby_remove" ->
            [l EXCEPT !.lobby_entries = RemoveAt(@, d.slot)]
      [] d.message.msg = "lobby_complete" ->
            [l EXCEPT !.lobby_complete = TRUE]
      [] OTHER -> l

\* A delivery the lister's state can take within the bounds.
Deliverable(l, d) ==
    /\ d.slot <= Len(l.lobby_entries)
    /\ Len(handle_message(l, d).lobby_entries) <= MaxEntries

\* for message in messages: await self.handle_message(message)
RECURSIVE handle_messages(_, _)
handle_messages(l, messages) ==
    IF messages = <<>> THEN l
    ELSE handle_messages(handle_message(l, Head(messages)), Tail(messages))

RECURSIVE AllDeliverable(_, _)
AllDeliverable(l, messages) ==
    IF messages = <<>> THEN TRUE
    ELSE /\ Deliverable(l, Head(messages))
         /\ AllDeliverable(handle_message(l, Head(messages)), Tail(messages))

\* The non-empty message lists one read() of a lister can return: the
\* feeds send one message per websocket frame.
Messages(ws_proto) == {<<d>> : d \in Deliveries(ws_proto, MaxEntries)}

--------------------------------------------------------------------------
(* The aggregate *)

\* key=lambda g: g['username'] + g['server']
SortKey(g) == g.username \o g.server

\* Insert g into the sorted list s after every element whose key is not
\* greater: sorted() is stable.
RECURSIVE Insert(_, _)
Insert(s, g) ==
    IF s = <<>> THEN <<g>>
    ELSE IF StrLess(SortKey(g), SortKey(Head(s))) THEN <<g>> \o s
    ELSE <<Head(s)>> \o Insert(Tail(s), g)

RECURSIVE sorted(_)
sorted(s) ==
    IF s = <<>> THEN <<>>
    ELSE Insert(sorted(SubSeq(s, 1, Len(s) - 1)), s[Len(s)])

\* [g for g in DATABASE if g['server'] != server]
OtherServers(db, server) == SelectSeq(db, LAMBDA g : g.server # server)

update_database_keeping_old_entries(db, new_entries, server) ==
    sorted(db \o new_entries)

update_database_of_one_server(db, new_entries, server) ==
    sorted(new_entries)

update_database_merging(db, new_entries, server) ==
    sorted(new_entries \o db)

update_database_one_entry_per_user(db, new_entries, server) ==
    sorted(SelectSeq(OtherServers(db, server),
                     LAMBDA g : \A i \in DOMAIN new_entries :
                                   new_entries[i].username # g.username)
           \o new_entries)

update_database_unsorted(db, new_entries, server) ==
    OtherServers(db, server) \o new_entries

\* The value update_database assigns to DATABASE.
update_database(db, new_entries, server) ==
    sorted(OtherServers(db, server) \o new_entries)

--------------------------------------------------------------------------
(* Enrichment *)

\* LobbyList.watchlink
watchlink(l, username) ==
    IF l.ws_proto = 1 THEN l.base_url \o "#watch-" \o Join(username)
    ELSE l.base_url \o "watch/" \o Join(username)

\* A location is a sequence of tokens: ":" or a piece of text without ":".
BRANCH_NAMES ==
    [D |-> "Dungeon", Orc |-> "Orcish Mines", Elf |-> "Elven Halls",
     Lair |-> "Lair of the Beasts", Depths |-> "Depths", Swamp |-> "Swamp",
     Shoals |-> "Shoals", Spider |-> "Spider Nest", Snake |-> "Snake Pit",
     Slime |-> "Slime Pits", Vaults |-> "Vaults", Crypt |-> "Crypt",
     Tomb |-> "Tomb of the Ancients", Dis |-> "Iron City of Dis",
     Geh |-> "Gehenna", Coc |-> "Cocytus", Tar |-> "Tartarus",
     Zot |-> "Realm of Zot", Abyss |-> "Abyss", Zig |-> "Ziggurat",
     Lab |-> "Labyrinth", Bazaar |-> "Bazaar",
     WizLab |-> "Wizard's Laboratory", Sewer |-> "Sewer",
     Bailey |-> "Bailey", Ossuary |-> "Ossuary", IceCv |-> "Ice Cave",
     Volcano |-> "Volcano", Hell |-> "Vestibule of Hell",
     Temple |-> "Ecumenical Temple", Pan |-> "Pandemonium",
     Trove |-> "Treasure Trove"]

\* ':' in location
has_colon(location) == \E i \in DOMAIN location : location[i] = ":"

\* location.split(':', maxsplit): the pieces between the first maxsplit
\* colons and the rest; maxsplit = -1 splits at every colon.
RECURSIVE split(_, _)
split(location, maxsplit) ==
    IF maxsplit = 0 \/ ~has_colon(location) THEN <<location>>
    ELSE LET k == CHOOSE i \in DOMAIN location :
                     /\ location[i] = ":"
                     /\ \A j \in 1..(i - 1) : location[j] # ":"
         IN  <<SubSeq(location, 1, k - 1)>>
                \o split(SubSeq(location, k + 1, Len(location)), maxsplit - 1)

\* BRANCH_NAMES.get(br, br)
branch_name(br) == IF br \in DOMAIN BRANCH_NAMES THEN BRANCH_NAMES[br] ELSE br

\* The phrase of parse_location for a branch code, its name and a level.
humanreadable(location, br, branch, branchlevel) ==
    IF br \in {"D", "Orc", "Elf", "Lair", "Depths", "Swamp", "Shoals", "Slime",
               "Snake", "Spider", "Vaults", "Crypt", "Tomb", "Dis", "Zot",
               "Abyss"}
    THEN IF branchlevel # "0"
         THEN "on level " \o branchlevel \o " of the " \o branch
         ELSE "in the " \o branch
    ELSE IF br \in {"Tar", "Geh", "Coc"}
    THEN "on level " \o branchlevel \o " of " \o branch
    ELSE IF br \in {"Zig"}
    THEN "on level " \o branchlevel \o " of a " \o branch
    ELSE IF br \in {"Lab", "Bazaar", "WizLab", "Sewer", "Bailey", "Volcano",
                    "Trove", "Salt"}
    THEN "in a " \o branch
    ELSE IF br \in {"Ossuary", "IceCv"}
    THEN "in an " \o branch
    ELSE IF br \in {"Hell", "Temple"}
    THEN "in the " \o branch
    ELSE IF br \in {"Pan"}
    THEN "in " \o branch
    ELSE "at " \o Join(location)

parse_location_without_default_level(location) ==
    LET br == Join(split(location, 1)[1])
        branchlevel == IF has_colon(location)
                       THEN Join(split(location, -1)[2])
                       ELSE ""
    IN  <<branch_name(br), branchlevel,
          humanreadable(location, br, branch_name(br), branchlevel)>>

\* parse_location: (branch, branchlevel, humanreadable).
parse_location(location) ==
    LET br == IF has_colon(location)
              THEN Join(split(location, 1)[1])
              ELSE Join(location)
        branchlevel == IF has_colon(location)
                       THEN Join(split(location, -1)[2])
                       ELSE "0"
    IN  <<branch_name(br), branchlevel,
          humanreadable(location, br, branch_name(br), branchlevel)>>

\* if 'place' in entry: entry['branch'], entry['branchlevel'],
\* entry['place_human_readable'] = parse_location(entry['place'])
with_place(entry) ==
    IF "place" \in DOMAIN entry
    THEN set(set(set(entry, "branch", parse_location(entry.place)[1]),
                 "branchlevel", parse_location(entry.place)[2]),
             "place_human_readable", parse_location(entry.place)[3])
    ELSE entry

\* The loop body of update_lobby_data for one entry (no entry of the feeds
\* modelled has the key char).
enrich(entry, l) ==
    with_place(set(set(set(entry, "server", l.name),
                       "watchlink", watchlink(l, entry.username)),
                   "idle", entry.idle_time # 0))

\* entry['idle_time'] raises KeyError.
raises_KeyError(entry) == "idle_time" \notin DOMAIN entry

\* for entry in entries: ... over a list the loop does not fail on.
enriched(entries, l) == [i \in DOMAIN entries |-> enrich(entries[i], l)]

\* The entries the loop has enriched when it reaches one it fails on.
before_KeyError(entries) ==
    SubSeq(entries, 1,
           (CHOOSE k \in DOMAIN entries :
               /\ raises_KeyError(entries[k])
               /\ \A j \in 1..(k - 1) : ~raises_KeyError(entries[j])) - 1)

\* The loop writes into the dicts of the lister's list, and the dicts of a
\* published batch are the ones DATABASE holds: db as a reader sees it
\* after the loop has worked on entries.  (A dict of the lister's list that
\* equals one of db is that dict: only a published dict has the key server.)
enriched_in_place(db, entries, l) ==
    [i \in DOMAIN db |->
        IF \E j \in DOMAIN entries : entries[j] = db[i]
        THEN enrich(db[i], l)
        ELSE db[i]]

--------------------------------------------------------------------------
(* Supervisor tasks *)

Running == {"connect", "send", "read"}

\* json.dumps of None, of a list of dicts and of a dict, and the body of a
\* response that has none: the kind of JSON value and what it holds.
NoBody == [json |-> "", value |-> <<>>]
dumps_None == [json |-> "null", value |-> <<>>]
dumps_list(data) == [json |-> "array", value |-> data]
dumps_dict(data) == [json |-> "object", value |-> <<data>>]

NoResponse == [path |-> "", status |-> 0, body |-> NoBody]

\* The task of supervisor s is done: update_lobby_data returned or raised.
\* Its lister was only reachable from the task's frame, so its state is gone
\* with it; the event loop goes on with the other tasks.
task_done(s) ==
    /\ task' = [task EXCEPT ![s] = "done"]
    /\ lobby_entries' = [lobby_entries EXCEPT ![s] = <<>>]
    /\ lobby_complete' = [lobby_complete EXCEPT ![s] = FALSE]

raise_in_every_task(s) ==
    /\ task' = [t \in ServerNames |-> "done"]
    /\ lobby_entries' = [t \in ServerNames |-> <<>>]
    /\ lobby_complete' = [t \in ServerNames |-> FALSE]

\* An exception that update_lobby_data does not catch ends its task.
raise(s) == task_done(s)

\* The event loop runs the task for the first time: update_lobby_data calls
\* get_lobby_entries, ensure_connected finds no connection and awaits
\* connect().
update_lobby_data(s) ==
    /\ task[s] = "start"
    /\ task' = [task EXCEPT ![s] = "connect"]
    /\ response' = NoResponse
    /\ replayed' = FALSE
    /\ UNCHANGED <<DATABASE, lobby_entries, lobby_complete, published, watcher>>

connect_returns_without_request(s) ==
    /\ task[s] = "connect"
    /\ task' = [task EXCEPT ![s] = "read"]
    /\ response' = NoResponse
    /\ replayed' = FALSE
    /\ UNCHANGED <<DATABASE, lobby_entries, lobby_complete, published, watcher>>

\* connect() returns; protocol versions above 1 then request the lobby.
connect_returns(s) ==
    /\ task[s] = "connect"
    /\ task' = [task EXCEPT ![s] =
                   IF lister(s).ws_proto > 1 THEN "send" ELSE "read"]
    /\ response' = NoResponse
    /\ replayed' = FALSE
    /\ UNCHANGED <<DATABASE, lobby_entries, lobby_complete, published, watcher>>

\* connect() fails (host unreachable, handshake refused): not a
\* ConnectionClosed, so update_lobby_data does not catch it.
connect_raises(s) ==
    /\ task[s] = "connect"
    /\ raise(s)
    /\ response' = NoResponse
    /\ replayed' = FALSE
    /\ UNCHANGED <<DATABASE, published, watcher>>

\* send({"msg": "lobby"}) returns; get_lobby_entries goes on to read().
send_returns(s) ==
    /\ task[s] = "send"
    /\ task' = [task EXCEPT ![s] = "read"]
    /\ response' = NoResponse
    /\ replayed' = FALSE
    /\ UNCHANGED <<DATABASE, lobby_entries, lobby_complete, published, watcher>>

ConnectionClosed_dropping_entries(s) ==
    /\ task' = [task EXCEPT ![s] = "connect"]
    /\ DATABASE' = OtherServers(DATABASE, s)
    /\ response' = NoResponse
    /\ replayed' = FALSE
    /\ UNCHANGED <<lobby_entries, lobby_complete, published, watcher>>

\* except websockets.exceptions.ConnectionClosed: continue
\* and ensure_connected, finding the websocket closed, awaits connect().
ConnectionClosed(s) ==
    /\ task' = [task EXCEPT ![s] = "connect"]
    /\ response' = NoResponse
    /\ replayed' = FALSE
    /\ UNCHANGED <<DATABASE, lobby_entries, lobby_complete, published, watcher>>

send_raises(s) ==
    /\ task[s] = "send"
    /\ ConnectionClosed(s)

read_raises(s) ==
    /\ task[s] = "read"
    /\ ConnectionClosed(s)

\* read() returns no messages: get_lobby_entries breaks out of its loop and
\* returns None, and "for entry in entries" raises TypeError.
read_returns_empty(s) ==
    /\ task[s] = "read"
    /\ raise(s)
    /\ response' = NoResponse
    /\ replayed' = FALSE
    /\ UNCHANGED <<DATABASE, published, watcher>>

\* self.lobby_entries and self.lobby_complete after the messages of one
\* read() were handled.
handled(s, messages) ==
    handle_messages([lobby_entries |-> lobby_entries[s],
                     lobby_complete |-> lobby_complete[s]], messages)

\* if self.protocol_version == 1 and not self.lobby_complete: continue
reads_on(s, l) == lister(s).ws_proto = 1 /\ ~l.lobby_complete

\* The task of s awaits read() and the feed can deliver the messages.
can_read(s, messages) ==
    /\ task[s] = "read"
    /\ AllDeliverable([lobby_entries |-> lobby_entries[s],
                       lobby_complete |-> lobby_complete[s]], messages)

\* read() returns messages: handle them; a version 1 lister whose lobby is
\* not complete reads again; otherwise the entries are enriched and
\* published, and the loop comes back to read().
read_returns(s, messages) ==
    /\ can_read(s, messages)
    /\ \E l \in {handled(s, messages)} :
          IF reads_on(s, l)
          THEN /\ lobby_entries' = [lobby_entries EXCEPT ![s] = l.lobby_entries]
               /\ lobby_complete' = [lobby_complete EXCEPT ![s] = l.lobby_complete]
               /\ replayed' = FALSE
               /\ UNCHANGED <<DATABASE, task, published>>
          ELSE IF \E i \in DOMAIN l.lobby_entries :
                      raises_KeyError(l.lobby_entries[i])
          THEN /\ raise(s)
               /\ DATABASE' = enriched_in_place(
                                 DATABASE, before_KeyError(l.lobby_entries),
                                 lister(s))
               /\ replayed' = FALSE
               /\ UNCHANGED published
          ELSE \E batch \in {enriched(l.lobby_entries, lister(s))} :
               /\ lobby_entries' = [lobby_entries EXCEPT ![s] = batch]
               /\ lobby_complete' = [lobby_complete EXCEPT ![s] = l.lobby_complete]
               /\ DATABASE' = update_database(DATABASE, batch, s)
               /\ published' = [published EXCEPT ![s] = batch]
               /\ replayed' = (batch = published[s])
               /\ UNCHANGED task
    /\ response' = NoResponse
    /\ UNCHANGED watcher

\* except KeyboardInterrupt: print("Bye"); break
KeyboardInterrupt(s) ==
    /\ task[s] \in Running
    /\ task_done(s)
    /\ response' = NoResponse
    /\ replayed' = FALSE
    /\ UNCHANGED <<DATABASE, published, watcher>>

--------------------------------------------------------------------------
(* HTTP handlers *)

NoWatcher == [pc |-> "none"]

xyz == <<"x", "y", "z">>

\* The requests a client sends: a path and the parsed query string.  Player
\* a may be playing, player b never is; xyz is not a configured server.
Args ==
    {[player |-> <<"a">>], [server |-> cao],
     [player |-> <<"a">>, server |-> cao], [player |-> <<"a">>, server |-> xyz],
     [player |-> <<"b">>, server |-> cao]}

Requests ==
    {[path |-> "/games", args |-> <<>>], [path |-> "/nope", args |-> <<>>]}
    \cup [path : {"/gameinfo"}, args : Args]

\* The non-empty message lists one read() of a watcher can return.
WatcherMessages ==
    UNION {[1..n -> {[msg |-> "player"], [msg |-> "ping"]}] : n \in {1, 2}}

\* ApiRequestHandler.error_page
error_page(request, code) ==
    [path |-> request.path, status |-> code, body |-> NoBody]

\* A response with a JSON body.
json_response(request, data) ==
    [path |-> request.path, status |-> 200, body |-> data]

\* args.get(key) is missing or empty.
missing(args, key) == key \notin DOMAIN args

\* [g for g in DATABASE if g['username'] == player]
games_of(db, player) == SelectSeq(db, LAMBDA g : g.username = player)

\* [s for s in SERVERS if s.name == server_abbr]
servers_named(server_abbr) ==
    SelectSeq(SERVERS, LAMBDA s : s.name = server_abbr)

\* ApiRequestHandler.list_games
list_games(request) ==
    /\ request.path = "/games"
    /\ response' = json_response(request, dumps_list(DATABASE))
    /\ replayed' = FALSE
    /\ UNCHANGED <<DATABASE, lobby_entries, lobby_complete, task, published,
                   watcher>>

\* handle_request for a path that is not a route.
no_route(request) ==
    /\ request.path \notin {"/games", "/gameinfo"}
    /\ response' = error_page(request, 404)
    /\ replayed' = FALSE
    /\ UNCHANGED <<DATABASE, lobby_entries, lobby_complete, task, published,
                   watcher>>

game_info_response_ignoring_DATABASE(request, db) ==
    IF missing(request.args, "player") \/ missing(request.args, "server")
    THEN error_page(request, 400)
    ELSE json_response(request, dumps_None)

game_info_response_requiring_player_only(request, db) ==
    IF missing(request.args, "player")
    THEN error_page(request, 400)
    ELSE IF games_of(db, request.args.player) = <<>>
    THEN error_page(request, 404)
    ELSE json_response(request, dumps_None)

\* The response ApiRequestHandler.game_info writes without awaiting the
\* network: 400, 404, or, when game_info() returns None for a server name
\* that is not configured, json.dumps(None).
game_info_response(request, db) ==
    IF missing(request.args, "player") \/ missing(request.args, "server")
    THEN error_page(request, 400)
    ELSE IF games_of(db, request.args.player) = <<>>
    THEN error_page(request, 404)
    ELSE json_response(request, dumps_None)

\* ApiRequestHandler.game_info up to its first await of the network.
\* game_info() builds a GameWatcher for a configured server and
\* find_player_info awaits its connect().
game_info(request) ==
    /\ request.path = "/gameinfo"
    /\ IF /\ ~missing(request.args, "player")
          /\ ~missing(request.args, "server")
          /\ games_of(DATABASE, request.args.player) # <<>>
          /\ servers_named(request.args.server) # <<>>
       THEN /\ watcher.pc = "none"
            /\ watcher' = [pc |-> "connect", request |-> request,
                           server_abbr |-> request.args.server,
                           target_username |-> request.args.player]
            /\ response' = NoResponse
       ELSE /\ response' = game_info_response(request, DATABASE)
            /\ UNCHANGED watcher
    /\ replayed' = FALSE
    /\ UNCHANGED <<DATABASE, lobby_entries, lobby_complete, task, published>>

\* GameWatcher.ensure_connected: connect() returns, send_watch_game is
\* awaited.
watcher_connect_returns ==
    /\ watcher.pc = "connect"
    /\ watcher' = [watcher EXCEPT !.pc = "send"]
    /\ response' = NoResponse
    /\ replayed' = FALSE
    /\ UNCHANGED <<DATABASE, lobby_entries, lobby_complete, task, published>>

\* send_watch_game returns, find_player_info awaits read().
watcher_send_returns ==
    /\ watcher.pc = "send"
    /\ watcher' = [watcher EXCEPT !.pc = "read"]
    /\ response' = NoResponse
    /\ replayed' = FALSE
    /\ UNCHANGED <<DATABASE, lobby_entries, lobby_complete, task, published>>

\* connect, send or read of the watcher raises: nothing in game_info or the
\* handler catches it, and the HTTP server answers 500.
watcher_raises ==
    /\ watcher.pc \in {"connect", "send", "read"}
    /\ response' = error_page(watcher.request, 500)
    /\ watcher' = NoWatcher
    /\ replayed' = FALSE
    /\ UNCHANGED <<DATABASE, lobby_entries, lobby_complete, task, published>>

\* if message['msg'] == 'player' for some message of one read().
has_player(messages) == \E i \in DOMAIN messages : messages[i].msg = "player"

\* The first message of type "player" among those of one read().
first_player(messages) ==
    messages[CHOOSE i \in DOMAIN messages :
                /\ messages[i].msg = "player"
                /\ \A j \in 1..(i - 1) : messages[j].msg # "player"]

\* find_player_info: read() returns messages; the first "player" message is
\* returned and written as the response, otherwise it reads again.
watcher_read_returns(messages) ==
    /\ watcher.pc = "read"
    /\ IF has_player(messages)
       THEN /\ response' = json_response(watcher.request, dumps_dict(first_player(messages)))
            /\ watcher' = NoWatcher
       ELSE /\ response' = NoResponse
            /\ UNCHANGED watcher
    /\ replayed' = FALSE
    /\ UNCHANGED <<DATABASE, lobby_entries, lobby_complete, task, published>>

\* find_player_info: read() returns no messages; the loop breaks, the
\* function returns None and the handler writes json.dumps(None).
watcher_read_returns_empty ==
    /\ watcher.pc = "read"
    /\ response' = json_response(watcher.request, dumps_None)
    /\ watcher' = NoWatcher
    /\ replayed' = FALSE
    /\ UNCHANGED <<DATABASE, lobby_entries, lobby_complete, task, published>>

--------------------------------------------------------------------------

Init ==
    /\ DATABASE = <<>>
    /\ lobby_entries = [s \in ServerNames |-> <<>>]
    /\ lobby_complete = [s \in ServerNames |-> FALSE]
    /\ task = [s \in ServerNames |-> "start"]
    /\ published = [s \in ServerNames |-> <<>>]
    /\ watcher = NoWatcher
    /\ response = NoResponse
    /\ replayed = FALSE

Next ==
    \/ \E s \in ServerNames : update_lobby_data(s)
    \/ \E s \in ServerNames : connect_returns(s)
    \/ \E s \in ServerNames : connect_raises(s)
    \/ \E s \in ServerNames : send_returns(s)
    \/ \E s \in ServerNames : send_raises(s)
    \/ \E s \in ServerNames : read_raises(s)
    \/ \E s \in ServerNames : read_returns_empty(s)
    \/ \E s \in ServerNames : \E messages \in Messages(lister(s).ws_proto) :
            read_returns(s, messages)
    \/ \E s \in ServerNames : KeyboardInterrupt(s)
    \/ \E request \in Requests : list_games(request)
    \/ \E request \in Requests : no_route(request)
    \/ \E request \in Requests : game_info(request)
    \/ watcher_connect_returns
    \/ watcher_send_returns
    \/ watcher_raises
    \/ \E messages \in WatcherMessages : watcher_read_returns(messages)
    \/ watcher_read_returns_empty

Spec == Init /\ [][Next]_vars

\* The steps of the task of supervisor s.
supervisor(s) ==
    \/ update_lobby_data(s)
    \/ connect_returns(s)
    \/ connect_raises(s)
    \/ send_returns(s)
    \/ send_raises(s)
    \/ read_raises(s)
    \/ read_returns_empty(s)
    \/ \E messages \in Messages(lister(s).ws_proto) : read_returns(s, messages)
    \/ KeyboardInterrupt(s)

\* The event loop goes on running, and it runs every task that is not
\* done: each await of a supervisor comes back, one way or another.
FairSpec ==
    /\ Spec
    /\ WF_vars(Next)
    /\ \A s \in ServerNames : WF_vars(supervisor(s))

--------------------------------------------------------------------------
(* The enrichment of entries that have a place *)

\* Location codes: a branch code alone or with a level, and strings of
\* other shapes.
BranchCodes == DOMAIN BRANCH_NAMES \cup {"Salt", "Foo"}

Levels == {"0", "8"}

Locations ==
    {<<br>> : br \in BranchCodes}
    \cup {<<br, ":", level>> : br \in BranchCodes, level \in Levels}
    \cup {<<>>, <<":">>, <<"D", ":">>, <<":", "8">>, <<"D", ":", "8", ":", "2">>}

\* The lobby_entry message of a game at a location.
located(location) ==
    [msg |-> "lobby_entry", username |-> <<"a">>, game_id |-> "dcss",
     idle_time |-> 0, place |-> location]

\* The lister of cao has seen lobby_complete with an empty lobby and has
\* connected again; the other supervisor has not run yet.
InitLocation ==
    /\ DATABASE = <<>>
    /\ lobby_entries = [s \in ServerNames |-> <<>>]
    /\ lobby_complete = [s \in ServerNames |-> s = cao]
    /\ task = [s \in ServerNames |-> IF s = cao THEN "read" ELSE "start"]
    /\ published = [s \in ServerNames |-> <<>>]
    /\ watcher = NoWatcher
    /\ response = NoResponse
    /\ replayed = FALSE

\* read() of cao returns the lobby_entry of a game at a location.
read_returns_located(location) ==
    read_returns(cao, <<[message |-> located(location), slot |-> 0]>>)

NextLocation == \E location \in Locations : read_returns_located(location)

SpecLocation == InitLocation /\ [][NextLocation]_vars

--------------------------------------------------------------------------
(* Properties *)

\* [g for g in db if g['server'] == server]
ServerEntries(db, server) == SelectSeq(db, LAMBDA g : g.server = server)

Count(seq, e) == Cardinality({i \in DOMAIN seq : seq[i] = e})

\* The two lists hold the same entries, each as often.
SameEntries(s, t) ==
    /\ Len(s) = Len(t)
    /\ \A i \in DOMAIN s : Count(s, s[i]) = Count(t, s[i])

GamesResponse ==
    /\ response.path = "/games"
    /\ response.status = 200
    /\ response.body.json = "array"

\* C1: the aggregate never holds two entries with the same (username,
\* server) pair.
C1_Uniqueness ==
    \A i, j \in DOMAIN DATABASE :
        i # j => <<DATABASE[i].username, DATABASE[i].server>>
                    # <<DATABASE[j].username, DATABASE[j].server>>

\* C2: what list_games reads holds, for every server, exactly the batch of
\* that server's last update_database call: never entries of an earlier
\* batch beside it, never a part of it.
C2_ReadSeesWholeBatches ==
    GamesResponse =>
        \A s \in ServerNames :
            SameEntries(ServerEntries(response.body.value, s), published[s])

C2_Witness ==
    /\ GamesResponse
    /\ \A s \in ServerNames : ServerEntries(response.body.value, s) # <<>>

\* C3: for every server the aggregate's entries of that server are exactly
\* the batch of its last update_database call, each entry once, however the
\* calls of the supervisors interleave.
C3_LastBatchOfEachServer ==
    \A s \in ServerNames : SameEntries(ServerEntries(DATABASE, s), published[s])

C3_Witness ==
    /\ \A s \in ServerNames : published[s] # <<>>
    /\ Len(DATABASE) > Len(published[cao])
    /\ Len(DATABASE) > Len(published[cpo])

C5_SortedByUsernameThenServer ==
    \A i \in 1..(Len(DATABASE) - 1) :
        \/ StrLess(DATABASE[i].username, DATABASE[i + 1].username)
        \/ /\ DATABASE[i].username = DATABASE[i + 1].username
           /\ StrLessEq(DATABASE[i].server, DATABASE[i + 1].server)

\* C6: a read() that returns no messages leaves the supervisor running, at
\* its next read() on the same connection.
C6_EmptyReceiveIsTransient ==
    [][\A s \in ServerNames : read_returns_empty(s) => task'[s] = "read"]_vars

\* C7: after a failure of connect, send or read the supervisor task is still
\* running.
C7_FeedFailureStaysInside ==
    [][\A s \in ServerNames :
          (connect_raises(s) \/ send_raises(s) \/ read_raises(s))
             => task'[s] \in Running]_vars

\* C8: a step that ends one supervisor's task changes nothing of any other
\* server (its task, its lister, its entries in the aggregate), and while a
\* task is done list_games can answer and every other supervisor that
\* awaits read() can take the messages of its feed (can_read is the whole
\* guard of read_returns).
C8_FailureIsIsolated ==
    [][/\ \A s \in ServerNames :
             (task[s] # "done" /\ task'[s] = "done") =>
                \A t \in ServerNames \ {s} :
                    /\ task'[t] = task[t]
                    /\ lobby_entries'[t] = lobby_entries[t]
                    /\ lobby_complete'[t] = lobby_complete[t]
                    /\ published'[t] = published[t]
                    /\ ServerEntries(DATABASE', t) = ServerEntries(DATABASE, t)
       /\ \A s \in ServerNames :
             task[s] = "done" =>
                /\ ENABLED (\E request \in Requests : list_games(request))
                /\ \A t \in ServerNames \ {s} :
                      task[t] = "read" =>
                         \E messages \in Messages(lister(t).ws_proto) :
                            can_read(t, messages)]_vars

C8_Witness ==
    /\ task[cao] = "done"
    /\ task[cpo] = "read"
    /\ GamesResponse
    /\ ServerEntries(response.body.value, cpo) # <<>>

\* C9: a batch with an entry that lacks idle_time is still enriched and
\* published, and the supervisor keeps running.
C9_MissingIdleTimeDoesNotAbort ==
    [][\A s \in ServerNames :
          \A messages \in Messages(lister(s).ws_proto) :
             ( /\ read_returns(s, messages)
               /\ ~reads_on(s, handled(s, messages))
               /\ \E i \in DOMAIN handled(s, messages).lobby_entries :
                     raises_KeyError(handled(s, messages).lobby_entries[i]) )
             => /\ task'[s] = "read"
                /\ Len(published'[s]) = Len(handled(s, messages).lobby_entries)
                /\ SameEntries(ServerEntries(DATABASE', s), published'[s])]_vars

\* C10: /gameinfo for a player who is in the aggregate and a server name
\* that is not configured is answered with 404.
C10_UnknownServerIs404 ==
    [][\A request \in Requests :
          ( /\ game_info(request)
            /\ ~missing(request.args, "player")
            /\ ~missing(request.args, "server")
            /\ games_of(DATABASE, request.args.player) # <<>>
            /\ servers_named(request.args.server) = <<>> )
          => response'.status = 404]_vars

\* C11: /gameinfo with both parameters, for a player who is the username of
\* no entry of the aggregate when the request is handled, is answered 404.
C11_UnknownPlayerIs404 ==
    [][\A request \in Requests :
          ( /\ game_info(request)
            /\ ~missing(request.args, "player")
            /\ ~missing(request.args, "server")
            /\ games_of(DATABASE, request.args.player) = <<>> )
          => response' = error_page(request, 404)]_vars

C11_Witness ==
    /\ response.path = "/gameinfo"
    /\ response.status = 404
    /\ DATABASE # <<>>

\* C12: /gameinfo without the player parameter or without the server
\* parameter is answered 400, whatever the aggregate holds.
C12_MissingParameterIs400 ==
    [][\A request \in Requests :
          ( /\ game_info(request)
            /\ missing(request.args, "player") \/ missing(request.args, "server") )
          => response' = error_page(request, 400)]_vars

C12_Witness ==
    /\ response.path = "/gameinfo"
    /\ response.status = 400
    /\ games_of(DATABASE, <<"a">>) # <<>>

\* C13: the probe of a configured server ends in one of two ways: the
\* response is a message whose msg is "player", or the probe fails with a
\* feed error (answered 500).  It never answers with anything else.
C13_ProbeReturnsPlayerOrFails ==
    [][(watcher.pc = "read" /\ watcher'.pc = "none") =>
          \/ response'.status = 500
          \/ /\ response'.body.json = "object"
             /\ \A i \in DOMAIN response'.body.value :
                   response'.body.value[i].msg = "player"]_vars

\* C14: an update_database call of a server with the batch of that
\* server's previous call leaves the whole aggregate as it was, whatever
\* the other servers published in between.
C14_ReplayIsIdempotent ==
    [][replayed' => DATABASE' = DATABASE]_vars

C14_Witness ==
    /\ replayed
    /\ \A s \in ServerNames : Len(published[s]) = MaxEntries

\* The decoding table: the code's category decides the phrase.
StandardBranches ==
    {"D", "Orc", "Elf", "Lair", "Depths", "Swamp", "Shoals", "Slime", "Snake",
     "Spider", "Vaults", "Crypt", "Tomb", "Dis", "Zot", "Abyss"}

LabTypeBranches ==
    {"Lab", "Bazaar", "WizLab", "Sewer", "Bailey", "Volcano", "Trove", "Salt"}

TableBranch(code) ==
    IF code \in DOMAIN BRANCH_NAMES THEN BRANCH_NAMES[code] ELSE code

TablePhrase(code, L, raw) ==
    LET B == TableBranch(code)
    IN  CASE code \in StandardBranches /\ L # "0" ->
                "on level " \o L \o " of the " \o B
          [] code \in StandardBranches /\ L = "0" -> "in the " \o B
          [] code \in {"Tar", "Geh", "Coc"} -> "on level " \o L \o " of " \o B
          [] code = "Zig" -> "on level " \o L \o " of a " \o B
          [] code \in LabTypeBranches -> "in a " \o B
          [] code \in {"Ossuary", "IceCv"} -> "in an " \o B
          [] code \in {"Hell", "Temple"} -> "in the " \o B
          [] code = "Pan" -> "in " \o B
          [] OTHER -> "at " \o raw

\* "<Branch>" or "<Branch>:<Level>"
IsLocationCode(location) ==
    \/ Len(location) = 1 /\ location[1] # ":"
    \/ /\ Len(location) = 3
       /\ location[1] # ":" /\ location[2] = ":" /\ location[3] # ":"

\* C15: every entry published with a place has the three decoded fields
\* and the supervisor that decoded it is still running (the decoding of no
\* string fails); for a place "<Branch>" or "<Branch>:<Level>" the level is
\* the part after ":" or "0", the branch is the table's name or the code
\* itself, and the phrase is the one of the code's category.
C15_LocationDecoding ==
    /\ task[cao] = "read"
    /\ \A i \in DOMAIN DATABASE :
          "place" \in DOMAIN DATABASE[i] =>
             /\ {"branch", "branchlevel", "place_human_readable"}
                   \subseteq DOMAIN DATABASE[i]
             /\ IsLocationCode(DATABASE[i].place) =>
                   LET location == DATABASE[i].place
                       code == location[1]
                       L == IF Len(location) = 3 THEN location[3] ELSE "0"
                   IN  /\ DATABASE[i].branch = TableBranch(code)
                       /\ DATABASE[i].branchlevel = L
                       /\ DATABASE[i].place_human_readable
                             = TablePhrase(code, L, Join(location))

C15_Witness ==
    \E i \in DOMAIN DATABASE :
        /\ "place" \in DOMAIN DATABASE[i]
        /\ DATABASE[i].place = <<"D", ":", "8">>
        /\ DATABASE[i].branch = "Dungeon"
        /\ DATABASE[i].branchlevel = "8"
        /\ DATABASE[i].place_human_readable = "on level 8 of the Dungeon"

\* The read() of s that returns messages ends in an update_database call.
Publishes(s, messages) ==
    /\ can_read(s, messages)
    /\ ~reads_on(s, handled(s, messages))
    /\ \A i \in DOMAIN handled(s, messages).lobby_entries :
          ~raises_KeyError(handled(s, messages).lobby_entries[i])

C17_PublishesOnlyCompleteLobbies ==
    [][\A s \in ServerNames : \A messages \in Messages(lister(s).ws_proto) :
          (read_returns(s, messages) /\ Publishes(s, messages))
             => lobby_complete'[s]]_vars

\* C19: a connect() that returns is followed by the send of the lobby
\* request exactly when the protocol version is above 1; the first read()
\* of a connection comes right after that send (version above 1) or right
\* after the connect (version 1); nothing is sent at any other point.
C19_OneLobbyRequestPerConnection ==
    [][\A s \in ServerNames :
          /\ connect_returns(s) =>
                task'[s] = IF lister(s).ws_proto > 1 THEN "send" ELSE "read"
          /\ (task[s] # "send" /\ task'[s] = "send") =>
                lister(s).ws_proto > 1 /\ task[s] = "connect"
          /\ (task[s] # "read" /\ task'[s] = "read") =>
                task[s] = IF lister(s).ws_proto > 1 THEN "send" ELSE "connect"
          /\ (task[s] = "send" /\ task'[s] # "send") =>
                task'[s] \in {"read", "connect", "done"}]_vars

C19_Witness ==
    /\ task[cpo] = "send"
    /\ published[cpo] # <<>>
    /\ task[cao] = "read"
    /\ lobby_complete[cao]
    /\ lobby_entries[cao] = <<>>

\* C20: an update_database call of server s (a step that sets published[s]
\* to a new batch, or replays the old one) leaves the entries of every
\* other server as they were: the same entries with the same fields in the
\* same order.
C20_OtherServersAreKept ==
    [][\A s \in ServerNames :
          (published'[s] # published[s] \/ replayed')
             => OtherServers(DATABASE', s) = OtherServers(DATABASE, s)]_vars

C20_Witness ==
    /\ ~replayed
    /\ Len(DATABASE) = 2 * MaxEntries
    /\ \E i \in DOMAIN DATABASE : DATABASE[i].server # DATABASE[1].server
    /\ task[cao] = "read" /\ task[cpo] = "read"

\* C18: a ConnectionClosed from read() sends the supervisor to connect()
\* at once and calls no update_database; and a supervisor that has
\* published and is connecting again gets back to read(), however many
\* attempts that takes.
C18_ClosureLeadsToReconnect ==
    /\ [][\A s \in ServerNames :
             read_raises(s) => /\ task'[s] = "connect"
                               /\ DATABASE' = DATABASE
                               /\ published' = published]_vars
    /\ \A s \in ServerNames :
          (task[s] = "connect" /\ published[s] # <<>>) ~> (task[s] = "read")

====
